---------------------------- MODULE Spec2Model ----------------------------
(***************************************************************************)
(* A model of server.js: the friend-request handlers, the game-data        *)
(* handlers and the leaderboard, over one Firebase Realtime Database.      *)
(*                                                                         *)
(* The database is the only state.  A node of the database exists iff it   *)
(* holds a value: an empty object is not stored, and writing null deletes. *)
(* One call of update() with several paths is applied as a whole; two      *)
(* store calls of one handler are two steps, and other handlers may run    *)
(* between them.  Store calls are taken to succeed (the catch branches     *)
(* that answer 500 after a rejected store call are not modelled; the one   *)
(* 500 modelled is the TypeError thrown inside a handler's own try block). *)
(***************************************************************************)
EXTENDS Integers, Sequences, FiniteSets, TLC

\* ------------------------------------------------------------------ bounds
\* Requests the clients issue in one behaviour: to all handlers, to the
\* friends handlers alone, to the game-data handlers alone.
MaxOps == 2
MaxFriendOps == 4
MaxDataOps == 3
\* Handlers suspended between two of their store calls at a time.
MaxTasks == 2

\* Ids uuidv4() may return, in key order, and ids a client may invent that
\* uuidv4() never returns.
UuidPool == {"u1", "u2"}
JunkIds == {"zz"}
Ids == UuidPool \cup JunkIds
\* A userId / friendId missing from the request body.
NoId == ""

\* Field names of gameData a client may use; NoField is a missing name.
Fields == {"mainScore", "level", "score", "hasOwnProperty"}
NoField == ""

\* JSON scalars.  n orders the values of one kind as Firebase orders them.
Num(n) == [k |-> "num", n |-> n]
Str(n) == [k |-> "str", n |-> n]
Bool(n) == [k |-> "bool", n |-> n]
Null == [k |-> "null", n |-> 0]
Undefined == [k |-> "undef", n |-> 0]
True == Bool(1)
\* Values a client sends to the game-data handler: 10, "" and false.
Values == {Num(10), Str(0), Bool(0)}

\* Pseudos as character sequences; <<>> is the empty string, which no
\* handler stores, and stands for an absent pseudo in the database.
NoPseudo == << >>
Pseudos == {<< >>, <<" ">>, <<"a">>, <<"b">>}

\* HTTP statuses of sendResponse.
Ok == 200
Created == 201
InvalidArgument == 400
NotFound == 404
ServerError == 500

VARIABLES
    users,   \* the database under users/: id -> the node's children
    tasks,   \* handlers suspended between two store calls
    resp,    \* the response sent last
    left     \* requests the clients have still to issue

vars == <<users, tasks, resp, left>>

\* ------------------------------------------------------------ the database
NoGameData == [f \in Fields |-> Null]

EmptyNode ==
    [pseudo |-> NoPseudo, gameData |-> NoGameData, friends |-> {},
     friendRequestsSent |-> {}, friendRequestsReceived |-> {}]

\* snapshot.exists() of users/<id>/gameData
GameDataExists(db, id) == \E f \in Fields : db[id].gameData[f] # Null

\* snapshot.exists() of users/<id>: some child holds a value
NodeExists(db, id) ==
    \/ db[id].pseudo # NoPseudo
    \/ GameDataExists(db, id)
    \/ db[id].friends # {}
    \/ db[id].friendRequestsSent # {}
    \/ db[id].friendRequestsReceived # {}

\* const updates = {}
NoUpdates == [p \in {} |-> Null]

\* updates[path] = value, on a JavaScript object: a second assignment to the
\* same path replaces the first.
Assign(updates, path, value) ==
    [p \in (DOMAIN updates) \cup {path} |->
        IF p = path THEN value ELSE updates[p]]

\* The keys of a set-like child after the update: true adds, null deletes.
UpdatedKeys(old, updates, id, child) ==
    { k \in Ids :
        IF <<id, child, k>> \in DOMAIN updates
        THEN updates[<<id, child, k>>] # Null
        ELSE k \in old }

\* db.ref().update(updates) / userRef.update(updates): every path of the
\* map is written in one step.
ApplyUpdate(db, updates) ==
    [id \in Ids |->
        [pseudo |-> db[id].pseudo,
         gameData |->
            [f \in Fields |->
                IF <<id, "gameData", f>> \in DOMAIN updates
                THEN updates[<<id, "gameData", f>>]
                ELSE db[id].gameData[f]],
         friends |-> UpdatedKeys(db[id].friends, updates, id, "friends"),
         friendRequestsSent |->
            UpdatedKeys(db[id].friendRequestsSent, updates, id,
                        "friendRequestsSent"),
         friendRequestsReceived |->
            UpdatedKeys(db[id].friendRequestsReceived, updates, id,
                        "friendRequestsReceived")]]

\* sendResponse(res, statusCode, success, message, data)
NoData == "null"
Response(op, status, args, data) ==
    [op |-> op, status |-> status, args |-> args, data |-> data]

IdleTask ==
    [op |-> "idle", pc |-> "idle", id |-> NoId, pseudo |-> NoPseudo,
     a |-> NoField, b |-> NoField, value |-> Null, keys |-> {}]

\* Ids a client can name: those a create response returned, and invented
\* ones.  uuidv4() never returns an id a client named before.
KnownIds == { id \in UuidPool : users[id].pseudo # NoPseudo } \cup JunkIds

\* A uuidv4 that may return an id it returned before.
FreshIdsReused == UuidPool

\* The ids uuidv4() may return: those it has not returned yet.
FreshIds == { id \in UuidPool : users[id].pseudo = NoPseudo }

\* pseudo.trim() === ''
RECURSIVE IsBlank(_)
IsBlank(p) == IF p = << >> THEN TRUE ELSE Head(p) = " " /\ IsBlank(Tail(p))

\* The object newUserRef.set() writes: friends: {}, friendRequestsReceived:
\* {} and friendRequestsSent: {} are empty objects, which are not stored.
NewUser(pseudo) ==
    [pseudo |-> pseudo,
     gameData |-> [f \in Fields |->
                     IF f \in {"mainScore", "level"} THEN Num(0) ELSE Null],
     friends |-> {}, friendRequestsSent |-> {}, friendRequestsReceived |-> {}]

\* The database outlives the server process: at start it is empty, or holds
\* the users earlier calls of POST /createUser wrote.
InitialUsers ==
    { [id \in Ids |-> EmptyNode],
      [id \in Ids |-> IF id = "u1" THEN NewUser(<<"a">>) ELSE EmptyNode],
      [id \in Ids |-> CASE id = "u1" -> NewUser(<<"a">>)
                        [] id = "u2" -> NewUser(<<"b">>)
                        [] OTHER -> EmptyNode] }

InitWith(requests) ==
    /\ users \in InitialUsers
    /\ tasks = [s \in 1..MaxTasks |-> IdleTask]
    /\ resp = Response("none", Ok, << >>, NoData)
    /\ left = requests

Init == InitWith(MaxOps)

\* A request is issued: the handler runs to its first store call.
Issue == left > 0 /\ left' = left - 1

\* -------------------------------------------------------- friends handlers
\* POST /createUser
CreateUser(pseudo) ==
    /\ IF pseudo = << >> \/ IsBlank(pseudo)
       THEN /\ Issue
            /\ resp' = Response("createUser", InvalidArgument, <<pseudo>>, NoData)
            /\ UNCHANGED users
       ELSE \E newUserId \in FreshIds :
            /\ users' = [users EXCEPT ![newUserId] = NewUser(pseudo)]
            /\ resp' = Response("createUser", Created, <<pseudo>>,
                                [id |-> newUserId, pseudo |-> pseudo])
            /\ Issue
    /\ UNCHANGED tasks

\* GET /getUserDetails/:id
GetUserDetails(userId) ==
    /\ Issue
    /\ resp' = IF ~NodeExists(users, userId)
               THEN Response("getUserDetails", NotFound, <<userId>>, NoData)
               ELSE Response("getUserDetails", Ok, <<userId>>,
                             [id |-> userId, pseudo |-> users[userId].pseudo])
    /\ UNCHANGED <<users, tasks>>

\* A send that writes the sender's entry alone.
SendUpdatesSentOnly(userId, friendId) ==
    Assign(NoUpdates, <<userId, "friendRequestsSent", friendId>>, True)

\* The updates map of POST /sendFriendRequest
SendUpdates(userId, friendId) ==
    Assign(Assign(NoUpdates,
        <<userId, "friendRequestsSent", friendId>>, True),
        <<friendId, "friendRequestsReceived", userId>>, True)

\* A handler without the check of a request to oneself.
NeverSelf(userId, friendId) == FALSE

\* userId === friendId
IsSelf(userId, friendId) == userId = friendId

\* POST /sendFriendRequest
SendFriendRequest(userId, friendId) ==
    /\ Issue
    /\ IF userId = NoId \/ friendId = NoId
       THEN /\ resp' = Response("sendFriendRequest", InvalidArgument,
                                <<userId, friendId>>, NoData)
            /\ UNCHANGED users
       ELSE IF IsSelf(userId, friendId)
       THEN /\ resp' = Response("sendFriendRequest", InvalidArgument,
                                <<userId, friendId>>, NoData)
            /\ UNCHANGED users
       ELSE /\ users' = ApplyUpdate(users, SendUpdates(userId, friendId))
            /\ resp' = Response("sendFriendRequest", Ok,
                                <<userId, friendId>>, NoData)
    /\ UNCHANGED tasks

\* An accept that writes the accepting user's friends entry alone.
AcceptUpdatesOneFriend(userId, friendId) ==
    Assign(Assign(Assign(NoUpdates,
        <<userId, "friends", friendId>>, True),
        <<userId, "friendRequestsReceived", friendId>>, Null),
        <<friendId, "friendRequestsSent", userId>>, Null)

\* An accept that leaves the requester's friendRequestsSent entry.
AcceptUpdatesKeepsSent(userId, friendId) ==
    Assign(Assign(Assign(NoUpdates,
        <<userId, "friends", friendId>>, True),
        <<friendId, "friends", userId>>, True),
        <<userId, "friendRequestsReceived", friendId>>, Null)

\* The updates map of POST /acceptFriendRequest
AcceptUpdates(userId, friendId) ==
    Assign(Assign(Assign(Assign(NoUpdates,
        <<userId, "friends", friendId>>, True),
        <<friendId, "friends", userId>>, True),
        <<userId, "friendRequestsReceived", friendId>>, Null),
        <<friendId, "friendRequestsSent", userId>>, Null)

\* POST /acceptFriendRequest
AcceptFriendRequest(userId, friendId) ==
    /\ Issue
    /\ IF userId = NoId \/ friendId = NoId
       THEN /\ resp' = Response("acceptFriendRequest", InvalidArgument,
                                <<userId, friendId>>, NoData)
            /\ UNCHANGED users
       ELSE /\ users' = ApplyUpdate(users, AcceptUpdates(userId, friendId))
            /\ resp' = Response("acceptFriendRequest", Ok,
                                <<userId, friendId>>, NoData)
    /\ UNCHANGED tasks

\* A decline written as a copy of the accept.
DeclineUpdatesAsAccept(userId, friendId) ==
    Assign(Assign(Assign(Assign(NoUpdates,
        <<userId, "friends", friendId>>, True),
        <<friendId, "friends", userId>>, True),
        <<userId, "friendRequestsReceived", friendId>>, Null),
        <<friendId, "friendRequestsSent", userId>>, Null)

\* A decline that also ends the friendship of the two.
DeclineUpdatesUnfriends(userId, friendId) ==
    Assign(Assign(Assign(Assign(NoUpdates,
        <<userId, "friendRequestsReceived", friendId>>, Null),
        <<friendId, "friendRequestsSent", userId>>, Null),
        <<userId, "friends", friendId>>, Null),
        <<friendId, "friends", userId>>, Null)

\* A decline that removes every request userId received.
DeclineUpdatesAll(userId, friendId) ==
    [p \in { <<userId, "friendRequestsReceived", k>> : k \in Ids }
            \cup { <<k, "friendRequestsSent", userId>> : k \in Ids }
        |-> Null]

\* The updates map of POST /declineFriendRequest
DeclineUpdates(userId, friendId) ==
    Assign(Assign(NoUpdates,
        <<userId, "friendRequestsReceived", friendId>>, Null),
        <<friendId, "friendRequestsSent", userId>>, Null)

\* POST /declineFriendRequest
DeclineFriendRequest(userId, friendId) ==
    /\ Issue
    /\ IF userId = NoId \/ friendId = NoId
       THEN /\ resp' = Response("declineFriendRequest", InvalidArgument,
                                <<userId, friendId>>, NoData)
            /\ UNCHANGED users
       ELSE /\ users' = ApplyUpdate(users, DeclineUpdates(userId, friendId))
            /\ resp' = Response("declineFriendRequest", Ok,
                                <<userId, friendId>>, NoData)
    /\ UNCHANGED tasks

\* ------------------------------------------------------- suspended handlers
\* The slot a handler that suspends takes: the lowest idle one.
FreeSlot == CHOOSE s \in 1..MaxTasks :
    /\ tasks[s].op = "idle"
    /\ \A t \in 1..MaxTasks : tasks[t].op = "idle" => s <= t

HasFreeSlot == \E s \in 1..MaxTasks : tasks[s].op = "idle"

Suspend(task) == tasks' = [tasks EXCEPT ![FreeSlot] = task]
Finish(s) == tasks' = [tasks EXCEPT ![s] = IdleTask]

\* Ids in the order Firebase iterates keys (Object.keys, forEach).
IdOrder == <<"u1", "u2", "zz">>
IdIndex(id) == CHOOSE i \in 1..Len(IdOrder) : IdOrder[i] = id
KeysOf(S) == SelectSeq(IdOrder, LAMBDA id : id \in S)

\* A resolution that loses the first key of the snapshot.
WithDetailsButFirst(db, keys) ==
    LET present == SelectSeq(Tail(SelectSeq(IdOrder, LAMBDA id : id \in keys)),
                             LAMBDA id : db[id].pseudo # NoPseudo)
    IN  [i \in 1..Len(present) |->
            [id |-> present[i], pseudo |-> db[present[i]].pseudo]]

\* ids.map(async id => pseudo of id, or null).filter(Boolean)
WithDetails(db, keys) ==
    LET present == SelectSeq(KeysOf(keys), LAMBDA id : db[id].pseudo # NoPseudo)
    IN  [i \in 1..Len(present) |->
            [id |-> present[i], pseudo |-> db[present[i]].pseudo]]

\* GET /getFriendRequests/:id, to the snapshot of friendRequestsReceived
GetFriendRequests(userId) ==
    /\ Issue
    /\ IF users[userId].friendRequestsReceived = {}
       THEN /\ resp' = Response("getFriendRequests", Ok, <<userId>>, << >>)
            /\ UNCHANGED tasks
       ELSE /\ HasFreeSlot
            /\ Suspend([IdleTask EXCEPT !.op = "getFriendRequests",
                          !.pc = "details", !.id = userId,
                          !.keys = users[userId].friendRequestsReceived])
            /\ UNCHANGED resp
    /\ UNCHANGED users

\* GET /getFriendRequests/:id, the reads of the requesters' pseudos
GetFriendRequestsDetails(s) ==
    /\ tasks[s].op = "getFriendRequests" /\ tasks[s].pc = "details"
    /\ resp' = Response("getFriendRequests", Ok, <<tasks[s].id>>,
                        WithDetails(users, tasks[s].keys))
    /\ Finish(s)
    /\ UNCHANGED <<users, left>>

\* GET /getFriendsList/:userId, to the snapshot of friends
GetFriendsList(userId) ==
    /\ Issue
    /\ IF users[userId].friends = {}
       THEN /\ resp' = Response("getFriendsList", Ok, <<userId>>, << >>)
            /\ UNCHANGED tasks
       ELSE /\ HasFreeSlot
            /\ Suspend([IdleTask EXCEPT !.op = "getFriendsList",
                          !.pc = "details", !.id = userId,
                          !.keys = users[userId].friends])
            /\ UNCHANGED resp
    /\ UNCHANGED users

\* GET /getFriendsList/:userId, the reads of the friends' pseudos
GetFriendsListDetails(s) ==
    /\ tasks[s].op = "getFriendsList" /\ tasks[s].pc = "details"
    /\ resp' = Response("getFriendsList", Ok, <<tasks[s].id>>,
                        WithDetails(users, tasks[s].keys))
    /\ Finish(s)
    /\ UNCHANGED <<users, left>>

\* ------------------------------------------------------ game-data handlers
\* GET /api/users/:userId/gameData
GetGameData(userId) ==
    /\ Issue
    /\ resp' = Response("getGameData", Ok, <<userId>>, users[userId].gameData)
    /\ UNCHANGED <<users, tasks>>

\* GET /api/users/:userId/gameData/:fieldName
GetField(userId, fieldName) ==
    /\ Issue
    /\ resp' = IF users[userId].gameData[fieldName] # Null
               THEN Response("getField", Ok, <<userId, fieldName>>,
                             users[userId].gameData[fieldName])
               ELSE Response("getField", NotFound, <<userId, fieldName>>,
                             NoData)
    /\ UNCHANGED <<users, tasks>>

\* POST /api/users/:userId/gameData, to the snapshot of the user
SetField(userId, field, value) ==
    /\ Issue
    /\ IF field = NoField \/ value = Undefined
       THEN /\ resp' = Response("setField", InvalidArgument,
                                <<userId, field, value>>, NoData)
            /\ UNCHANGED tasks
       ELSE IF ~NodeExists(users, userId)
       THEN /\ resp' = Response("setField", NotFound,
                                <<userId, field, value>>, NoData)
            /\ UNCHANGED tasks
       ELSE /\ HasFreeSlot
            /\ Suspend([IdleTask EXCEPT !.op = "setField", !.pc = "update",
                          !.id = userId, !.a = field, !.value = value])
            /\ UNCHANGED resp
    /\ UNCHANGED users

\* The updates map of POST /api/users/:userId/gameData
SetFieldUpdates(userId, field, value) ==
    Assign(NoUpdates, <<userId, "gameData", field>>, value)

\* POST /api/users/:userId/gameData, the update
SetFieldUpdate(s) ==
    /\ tasks[s].op = "setField" /\ tasks[s].pc = "update"
    /\ users' = ApplyUpdate(users,
            SetFieldUpdates(tasks[s].id, tasks[s].a, tasks[s].value))
    /\ resp' = Response("setField", Ok,
                        <<tasks[s].id, tasks[s].a, tasks[s].value>>, NoData)
    /\ Finish(s)
    /\ UNCHANGED left

\* POST /api/users/:userId/rename-game-field, to the snapshot of the user
RenameField(userId, oldField, newField) ==
    /\ Issue
    /\ IF oldField = NoField \/ newField = NoField
       THEN /\ resp' = Response("renameField", InvalidArgument,
                                <<userId, oldField, newField>>, NoData)
            /\ UNCHANGED tasks
       ELSE IF ~NodeExists(users, userId)
       THEN /\ resp' = Response("renameField", NotFound,
                                <<userId, oldField, newField>>, NoData)
            /\ UNCHANGED tasks
       ELSE /\ HasFreeSlot
            /\ Suspend([IdleTask EXCEPT !.op = "renameField",
                          !.pc = "gameData", !.id = userId,
                          !.a = oldField, !.b = newField])
            /\ UNCHANGED resp
    /\ UNCHANGED users

\* gameData.hasOwnProperty(oldField) on the object snapshot.val() returns:
\* "true" / "false", or "throws" when the object has an own key named
\* hasOwnProperty, whose value (a scalar) is then what is called.
HasOwnProperty(gameData, oldField) ==
    IF gameData["hasOwnProperty"] # Null THEN "throws"
    ELSE IF gameData[oldField] # Null THEN "true"
    ELSE "false"

\* POST /api/users/:userId/rename-game-field, the snapshot of gameData
RenameFieldGameData(s) ==
    /\ tasks[s].op = "renameField" /\ tasks[s].pc = "gameData"
    /\ LET t == tasks[s]
           gameData == users[t.id].gameData
           args == <<t.id, t.a, t.b>>
       IN  IF ~GameDataExists(users, t.id)
           THEN /\ resp' = Response("renameField", NotFound, args, NoData)
                /\ Finish(s)
           ELSE IF HasOwnProperty(gameData, t.a) = "throws"
           THEN /\ resp' = Response("renameField", ServerError, args, NoData)
                /\ Finish(s)
           ELSE IF HasOwnProperty(gameData, t.a) = "false"
           THEN /\ resp' = Response("renameField", NotFound, args, NoData)
                /\ Finish(s)
           ELSE /\ tasks' = [tasks EXCEPT ![s].pc = "update",
                                          ![s].value = gameData[t.a]]
                /\ UNCHANGED resp
    /\ UNCHANGED <<users, left>>

\* A rename that copies the value and leaves the old field.
RenameUpdatesKeepsOld(userId, oldField, newField, oldValue) ==
    Assign(NoUpdates, <<userId, "gameData", newField>>, oldValue)

\* A rename that removes the old field and never writes the new one.
RenameUpdatesOnlyRemoves(userId, oldField, newField, oldValue) ==
    Assign(NoUpdates, <<userId, "gameData", oldField>>, Null)

\* The updates map of POST /api/users/:userId/rename-game-field
\* (oldValue is gameData[oldField] of the snapshot)
RenameUpdates(userId, oldField, newField, oldValue) ==
    Assign(Assign(NoUpdates,
        <<userId, "gameData", newField>>, oldValue),
        <<userId, "gameData", oldField>>, Null)

\* POST /api/users/:userId/rename-game-field, the update
RenameFieldUpdate(s) ==
    /\ tasks[s].op = "renameField" /\ tasks[s].pc = "update"
    /\ users' = ApplyUpdate(users,
            RenameUpdates(tasks[s].id, tasks[s].a, tasks[s].b,
                          tasks[s].value))
    /\ resp' = Response("renameField", Ok,
                        <<tasks[s].id, tasks[s].a, tasks[s].b>>, NoData)
    /\ Finish(s)
    /\ UNCHANGED left

\* -------------------------------------------------------------- leaderboard
\* Firebase's order of the values of an orderByChild query: null, false,
\* true, numbers ascending, strings ascending; equal values by key.
KindRank(v) ==
    CASE v.k = "null" -> 0
      [] v.k = "bool" -> 1
      [] v.k = "num" -> 2
      [] v.k = "str" -> 3

ChildBefore(db, x, y) ==
    LET vx == db[x].gameData["mainScore"]
        vy == db[y].gameData["mainScore"]
    IN  \/ KindRank(vx) < KindRank(vy)
        \/ KindRank(vx) = KindRank(vy) /\ vx.n < vy.n
        \/ vx = vy /\ IdIndex(x) < IdIndex(y)

\* db.ref('users').orderByChild('gameData/mainScore'): the existing nodes,
\* ascending.
RECURSIVE OrderByMainScore(_, _)
OrderByMainScore(db, S) ==
    IF S = {} THEN << >>
    ELSE LET first == CHOOSE x \in S : \A y \in S \ {x} : ChildBefore(db, x, y)
         IN  <<first>> \o OrderByMainScore(db, S \ {first})

\* A leaderboard sent in the order of the query.
NotReversed(q) == q

Reverse(q) == [i \in 1..Len(q) |-> q[Len(q) + 1 - i]]

\* Entries that carry the gameData of a new user, not the current one.
LeaderboardEntriesStale(db, ordered) ==
    LET kept == SelectSeq(ordered, LAMBDA id : GameDataExists(db, id))
    IN  [i \in 1..Len(kept) |->
            [userId |-> kept[i], username |-> db[kept[i]].pseudo,
             gameData |-> NewUser(db[kept[i]].pseudo).gameData]]

\* The entries the forEach pushes: the children that have gameData.
LeaderboardEntries(db, ordered) ==
    LET kept == SelectSeq(ordered, LAMBDA id : GameDataExists(db, id))
    IN  [i \in 1..Len(kept) |->
            [userId |-> kept[i], username |-> db[kept[i]].pseudo,
             gameData |-> db[kept[i]].gameData]]

\* GET /api/leaderboard
GetLeaderboard ==
    /\ Issue
    /\ LET existing == { id \in Ids : NodeExists(users, id) }
       IN  resp' = Response("getLeaderboard", Ok, << >>,
                Reverse(LeaderboardEntries(users,
                    OrderByMainScore(users, existing))))
    /\ UNCHANGED <<users, tasks>>

\* ---------------------------------------------------------- findOrCreateUser
\* A query that finds no user, whatever the database holds.
NoMatch(db, pseudo) == << >>

\* orderByChild('pseudo').equalTo(pseudo).limitToFirst(1): the matching
\* nodes, the first in key order.
FirstWithPseudo(db, pseudo) ==
    KeysOf({ id \in Ids : db[id].pseudo = pseudo })

\* POST /findOrCreateUser, to the query
FindOrCreateUser(pseudo) ==
    /\ Issue
    /\ IF pseudo = << >> \/ IsBlank(pseudo)
       THEN /\ resp' = Response("findOrCreateUser", InvalidArgument,
                                <<pseudo>>, NoData)
            /\ UNCHANGED tasks
       ELSE IF FirstWithPseudo(users, pseudo) # << >>
       THEN /\ resp' = Response("findOrCreateUser", Ok, <<pseudo>>,
                    [id |-> Head(FirstWithPseudo(users, pseudo)),
                     pseudo |-> pseudo])
            /\ UNCHANGED tasks
       ELSE /\ HasFreeSlot
            /\ Suspend([IdleTask EXCEPT !.op = "findOrCreateUser",
                          !.pc = "set", !.pseudo = pseudo])
            /\ UNCHANGED resp
    /\ UNCHANGED users

\* POST /findOrCreateUser, the set of the new user
FindOrCreateUserSet(s) ==
    /\ tasks[s].op = "findOrCreateUser" /\ tasks[s].pc = "set"
    /\ \E newUserId \in FreshIds :
        /\ users' = [users EXCEPT ![newUserId] = NewUser(tasks[s].pseudo)]
        /\ resp' = Response("findOrCreateUser", Created, <<tasks[s].pseudo>>,
                            [id |-> newUserId, pseudo |-> tasks[s].pseudo])
    /\ Finish(s)
    /\ UNCHANGED left

\* ------------------------------------------------------------ specification
\* The requests the clients send.  A body with a missing member is drawn
\* once per handler.
IdPairs == (KnownIds \X KnownIds) \cup {<<NoId, NoId>>}
FieldArgs == {"mainScore", "score", "hasOwnProperty"}
SetArgs == (FieldArgs \X Values) \cup {<<NoField, Num(10)>>, <<"score", Undefined>>}
RenameArgs == (FieldArgs \X FieldArgs) \cup {<<"score", NoField>>}

IdentityRequests ==
    \/ \E pseudo \in Pseudos : CreateUser(pseudo)
    \/ \E pseudo \in Pseudos : FindOrCreateUser(pseudo)
    \/ \E userId \in KnownIds : GetUserDetails(userId)

IdentitySteps == \E s \in 1..MaxTasks : FindOrCreateUserSet(s)

FriendRequests ==
    \/ \E p \in IdPairs : SendFriendRequest(p[1], p[2])
    \/ \E p \in IdPairs : AcceptFriendRequest(p[1], p[2])
    \/ \E p \in IdPairs : DeclineFriendRequest(p[1], p[2])
    \/ \E userId \in KnownIds : GetFriendRequests(userId)
    \/ \E userId \in KnownIds : GetFriendsList(userId)

FriendSteps ==
    \E s \in 1..MaxTasks :
        \/ GetFriendRequestsDetails(s)
        \/ GetFriendsListDetails(s)

DataRequests ==
    \/ \E userId \in KnownIds : GetGameData(userId)
    \/ \E userId \in KnownIds, fieldName \in FieldArgs :
            GetField(userId, fieldName)
    \/ \E userId \in KnownIds, a \in SetArgs : SetField(userId, a[1], a[2])
    \/ \E userId \in KnownIds, a \in RenameArgs :
            RenameField(userId, a[1], a[2])
    \/ GetLeaderboard

DataSteps ==
    \E s \in 1..MaxTasks :
        \/ SetFieldUpdate(s)
        \/ RenameFieldGameData(s)
        \/ RenameFieldUpdate(s)

\* Every handler, any interleaving of their store calls.
Next ==
    \/ IdentityRequests \/ FriendRequests \/ DataRequests
    \/ IdentitySteps \/ FriendSteps \/ DataSteps

Spec == Init /\ [][Next]_vars

\* The identity and friends handlers alone.
NextFriends ==
    \/ IdentityRequests \/ FriendRequests
    \/ IdentitySteps \/ FriendSteps

SpecFriends == InitWith(MaxFriendOps) /\ [][NextFriends]_vars

\* The identity and game-data handlers alone.
NextData ==
    \/ IdentityRequests \/ DataRequests
    \/ IdentitySteps \/ DataSteps

SpecData == InitWith(MaxDataOps) /\ [][NextData]_vars

\* The same, the clients sending a request only once the one before it was
\* answered.
AllIdle == \A s \in 1..MaxTasks : tasks[s].op = "idle"

NextDataSeq ==
    \/ AllIdle /\ (IdentityRequests \/ DataRequests)
    \/ IdentitySteps \/ DataSteps

SpecDataSeq == InitWith(MaxDataOps) /\ [][NextDataSeq]_vars

\* The friends handlers, one request at a time.
NextFriendsSeq ==
    \/ AllIdle /\ (IdentityRequests \/ FriendRequests)
    \/ IdentitySteps \/ FriendSteps

SpecFriendsSeq == InitWith(MaxFriendOps) /\ [][NextFriendsSeq]_vars

\* The friends handlers, users being created by findOrCreateUser only.
FindRequests ==
    \/ \E pseudo \in Pseudos : FindOrCreateUser(pseudo)
    \/ \E userId \in KnownIds : GetUserDetails(userId)

NextFind ==
    \/ FindRequests \/ FriendRequests
    \/ IdentitySteps \/ FriendSteps

SpecFind == InitWith(MaxFriendOps) /\ [][NextFind]_vars

\* ================================================================== claims
Sent(id) == users[id].friendRequestsSent
Received(id) == users[id].friendRequestsReceived
Friends(id) == users[id].friends
Existing(id) == users[id].pseudo # NoPseudo
IdsOf(data) == { data[i].id : i \in 1..Len(data) }
Answered(r, op, status, args) ==
    r.op = op /\ r.status = status /\ r.args = args

\* C1: in every reachable state, for all ids A and B, B is a key of A's
\* friendRequestsSent iff A is a key of B's friendRequestsReceived.
C1_PendingMirrored ==
    \A A \in Ids, B \in Ids : B \in Sent(A) <=> A \in Received(B)

\* C1's case: an accept or a decline was answered and a request is pending.
C1_Witness ==
    /\ resp.op \in {"acceptFriendRequest", "declineFriendRequest"}
    /\ resp.status = Ok
    /\ \E A \in Ids, B \in Ids : B \in Sent(A) /\ A \in Received(B)

\* C2: in every reachable state, for all ids A and B, A's friends hold B iff
\* B's friends hold A.
C2_FriendsSymmetric ==
    \A A \in Ids, B \in Ids : B \in Friends(A) <=> A \in Friends(B)

\* C2's case: two distinct users are friends after an accept.
C2_Witness ==
    \E A \in Ids, B \in Ids :
        /\ A # B /\ B \in Friends(A) /\ A \in Friends(B)
        /\ Answered(resp, "acceptFriendRequest", Ok, <<A, B>>)

\* C3: when the user A has a request pending to the user B and B one to A (both sends were
\* answered, in either order), an accept by either of them leaves them
\* friends of each other with no pending entry between them in either
\* direction.
C3_MutualRequestsAccepted ==
    [][\A A \in Ids, B \in Ids :
        ( /\ A # B /\ Existing(A) /\ Existing(B)
          /\ B \in Sent(A) /\ A \in Received(B)
          /\ A \in Sent(B) /\ B \in Received(A)
          /\ resp' # resp
          /\ Answered(resp', "acceptFriendRequest", Ok, <<A, B>>) )
        => /\ B \in users'[A].friends /\ A \in users'[B].friends
           /\ B \notin users'[A].friendRequestsSent
           /\ B \notin users'[A].friendRequestsReceived
           /\ A \notin users'[B].friendRequestsSent
           /\ A \notin users'[B].friendRequestsReceived]_vars

\* C4: a step that adds r to u's friends is the step of one accept, of r by
\* u or of u by r, and in that same step the accepted one's friends get the
\* accepting one, and the request is cleared from the accepting one's
\* friendRequestsReceived and from the accepted one's friendRequestsSent.
C4_AcceptInOneStep ==
    [][\A u \in Ids, r \in Ids :
        (r \notin users[u].friends /\ r \in users'[u].friends)
        => \E p \in {<<u, r>>, <<r, u>>} :
            /\ Answered(resp', "acceptFriendRequest", Ok, p)
            /\ p[2] \in users'[p[1]].friends
            /\ p[1] \in users'[p[2]].friends
            /\ p[2] \notin users'[p[1]].friendRequestsReceived
            /\ p[1] \notin users'[p[2]].friendRequestsSent]_vars

\* C4's case: an accept of a request that was sent was answered, and the
\* rest of the sender's requests is still pending.
C4_Witness ==
    \E u \in Ids, r \in Ids :
        /\ u # r
        /\ Answered(resp, "acceptFriendRequest", Ok, <<u, r>>)
        /\ r \in Friends(u) /\ u \in Friends(r)
        /\ r \notin Received(u) /\ u \notin Sent(r)
        /\ Sent(r) # {}

\* C5: for existing users A # B, the requests being sent one at a time:
\* the getFriendRequests of B answered next after the send of A to B holds
\* A; when the accept of A by B is answered, A is not in B's
\* friendRequestsReceived nor B in A's friendRequestsSent, and the
\* getFriendsList of A answered next holds B, that of B holds A.
C5_SendListAcceptList ==
    [][\A A \in Ids, B \in Ids :
        (A # B /\ Existing(A) /\ Existing(B) /\ resp' # resp) =>
        /\ ( /\ Answered(resp, "sendFriendRequest", Ok, <<A, B>>)
             /\ resp'.op = "getFriendRequests" /\ resp'.args = <<B>> )
           => resp'.status = Ok /\ A \in IdsOf(resp'.data)
        /\ Answered(resp', "acceptFriendRequest", Ok, <<B, A>>)
           => /\ A \notin users'[B].friendRequestsReceived
              /\ B \notin users'[A].friendRequestsSent
        /\ ( /\ Answered(resp, "acceptFriendRequest", Ok, <<B, A>>)
             /\ resp'.op = "getFriendsList" /\ resp'.args = <<A>> )
           => resp'.status = Ok /\ B \in IdsOf(resp'.data)
        /\ ( /\ Answered(resp, "acceptFriendRequest", Ok, <<B, A>>)
             /\ resp'.op = "getFriendsList" /\ resp'.args = <<B>> )
           => resp'.status = Ok /\ A \in IdsOf(resp'.data)]_vars

\* C5's case: after a send and its accept, the list of the sender's friends
\* was answered with the accepting user in it.
C5_Witness ==
    \E A \in Ids, B \in Ids :
        /\ A # B /\ Existing(A) /\ Existing(B)
        /\ Answered(resp, "getFriendsList", Ok, <<A>>)
        /\ B \in IdsOf(resp.data)
        /\ A \notin Received(B) /\ B \notin Sent(A)
        /\ left <= MaxFriendOps - 3

\* C6: when A's request to B is the only entry of the friends, sent and
\* received sets of A and B (the send of A to B was answered last, on empty
\* sets), the decline of A by B leaves the three sets of both empty; and no
\* decline adds or removes a friends entry of anyone.
C6_Decline ==
    [][ /\ \A A \in Ids, B \in Ids :
            ( /\ A # B
              /\ Answered(resp, "sendFriendRequest", Ok, <<A, B>>)
              /\ Friends(A) = {} /\ Friends(B) = {}
              /\ Sent(A) = {B} /\ Received(A) = {}
              /\ Sent(B) = {} /\ Received(B) = {A}
              /\ resp' # resp
              /\ Answered(resp', "declineFriendRequest", Ok, <<B, A>>) )
            => \A X \in {A, B} :
                /\ users'[X].friends = {}
                /\ users'[X].friendRequestsSent = {}
                /\ users'[X].friendRequestsReceived = {}
        /\ resp'.op = "declineFriendRequest"
            => \A X \in Ids : users'[X].friends = users[X].friends ]_vars

\* C6's case: a decline was answered after a send, and the two have no
\* entry left.
C6_Witness ==
    \E A \in Ids, B \in Ids :
        /\ A # B
        /\ Answered(resp, "declineFriendRequest", Ok, <<B, A>>)
        /\ left <= MaxFriendOps - 2
        /\ \A X \in {A, B} :
            Friends(X) = {} /\ Sent(X) = {} /\ Received(X) = {}

\* C7: a send of A to A is answered InvalidArgument and changes nothing in
\* the database; and in no reachable state is A in its own
\* friendRequestsSent or friendRequestsReceived.
C7_NoSelfRequest ==
    /\ [](\A A \in Ids : A \notin Sent(A) /\ A \notin Received(A))
    /\ [][\A A \in Ids :
            (resp'.op = "sendFriendRequest" /\ resp'.args = <<A, A>>)
            => resp'.status = InvalidArgument /\ users' = users]_vars

\* C7's case: a send of a user to itself was answered.
C7_Witness ==
    \E A \in Ids :
        /\ resp.op = "sendFriendRequest" /\ resp.args = <<A, A>>
        /\ resp.status = InvalidArgument

\* C8: a friends entry, once in the database, stays: no step of any handler
\* removes B from A's friends.
C8_FriendshipPermanent ==
    [][\A A \in Ids, B \in Ids :
        B \in users[A].friends => B \in users'[A].friends]_vars

\* C8's case: two users are friends and a later decline between them was
\* answered.
C8_Witness ==
    \E A \in Ids, B \in Ids :
        /\ A # B /\ B \in Friends(A) /\ A \in Friends(B)
        /\ Answered(resp, "declineFriendRequest", Ok, <<A, B>>)

Field(id, f) == users[id].gameData[f]

\* C9: the requests being sent one at a time, for a record r, fields
\* old # new and a value v (a number, a string or a boolean): the getField
\* of old answered next after the setField of old to v returns v; when the
\* renameField of old to new answered next after that setField succeeds,
\* new holds v and old is absent; and after a renameField of old to new
\* succeeded, the getField of new answered next returns the value new then
\* holds and the getField of old is answered NotFound.
C9_SetGetRename ==
    [][\A r \in Ids, old \in FieldArgs, new \in FieldArgs, v \in Values :
        (old # new /\ resp' # resp) =>
        /\ ( /\ Answered(resp, "setField", Ok, <<r, old, v>>)
             /\ resp'.op = "getField" /\ resp'.args = <<r, old>> )
           => resp'.status = Ok /\ resp'.data = v
        /\ ( /\ Answered(resp, "setField", Ok, <<r, old, v>>)
             /\ Answered(resp', "renameField", Ok, <<r, old, new>>) )
           => /\ users'[r].gameData[new] = v
              /\ users'[r].gameData[old] = Null
        /\ ( /\ Answered(resp, "renameField", Ok, <<r, old, new>>)
             /\ Field(r, new) = v
             /\ resp'.op = "getField" /\ resp'.args = <<r, new>> )
           => resp'.status = Ok /\ resp'.data = v
        /\ ( /\ Answered(resp, "renameField", Ok, <<r, old, new>>)
             /\ resp'.op = "getField" /\ resp'.args = <<r, old>> )
           => resp'.status = NotFound]_vars

\* C9's case: score was set to false, renamed to mainScore and read there.
C9_Witness ==
    \E r \in Ids :
        /\ Answered(resp, "getField", Ok, <<r, "mainScore">>)
        /\ resp.data = Bool(0)
        /\ Field(r, "score") = Null
        /\ Field(r, "hasOwnProperty") = Null
        /\ left = MaxDataOps - 3

\* C10: a renameField whose record does not exist when the handler reads
\* it, or whose old field is absent from the gameData the handler reads, is
\* answered NotFound, and its step changes nothing in the database.
C10_RenameAbsentNotFound ==
    [][ /\ \A s \in 1..MaxTasks :
            ( /\ tasks[s].op = "renameField" /\ tasks[s].pc = "gameData"
              /\ tasks'[s] # tasks[s]
              /\ Field(tasks[s].id, tasks[s].a) = Null )
            => /\ Answered(resp', "renameField", NotFound,
                           <<tasks[s].id, tasks[s].a, tasks[s].b>>)
               /\ users' = users
        /\ \A r \in Ids, old \in FieldArgs, new \in FieldArgs :
            ( /\ left' # left
              /\ resp' # resp
              /\ resp'.op = "renameField" /\ resp'.args = <<r, old, new>>
              /\ ~NodeExists(users, r) )
            => resp'.status = NotFound /\ users' = users ]_vars

\* C11: a renameField of old to new, old # new, changes the database in one
\* step only: the step of its update, after which new holds the value the
\* handler read and old is absent, nothing else having changed; the steps
\* in which the handler is received and reads leave the database as it is,
\* so no state lies between the write of new and the removal of old.
C11_RenameInOneStep ==
    [][\A s \in 1..MaxTasks :
        /\ ( /\ tasks[s].op = "renameField" /\ tasks[s].a # tasks[s].b
             /\ tasks'[s] # tasks[s] )
           => IF tasks[s].pc = "update"
              THEN users' = [users EXCEPT ![tasks[s].id].gameData =
                        [@ EXCEPT ![tasks[s].b] = tasks[s].value,
                                  ![tasks[s].a] = Null]]
              ELSE users' = users
        /\ (tasks[s].op = "idle" /\ tasks'[s].op = "renameField")
           => users' = users]_vars

\* C11's case: a rename of mainScore to score was answered while another
\* handler was between two of its store calls.
C11_Witness ==
    \E r \in Ids :
        /\ Answered(resp, "renameField", Ok, <<r, "mainScore", "score">>)
        /\ Field(r, "mainScore") = Null
        /\ Field(r, "score") # Null
        /\ \E s \in 1..MaxTasks : tasks[s].op # "idle"

\* C12: a setField of field f to value v on id r, f and v being given: when
\* no user was ever created under r, it is answered NotFound and the
\* database stays as it is, whatever requests were served before; when a
\* user was created under r, it is answered Ok and its update leaves f of
\* r holding v, every other field of r and every other record unchanged.
C12_SetFieldNeedsIdentity ==
    [][ /\ \A s \in 1..MaxTasks :
            (tasks[s].op = "setField" /\ tasks'[s] # tasks[s])
            => /\ Existing(tasks[s].id)
               /\ Answered(resp', "setField", Ok,
                           <<tasks[s].id, tasks[s].a, tasks[s].value>>)
               /\ users' = [users EXCEPT ![tasks[s].id].gameData =
                                [@ EXCEPT ![tasks[s].a] = tasks[s].value]]
        /\ \A s \in 1..MaxTasks :
            (tasks[s].op = "idle" /\ tasks'[s].op = "setField")
            => Existing(tasks'[s].id) /\ users' = users
        /\ \A r \in Ids, f \in Fields, v \in Values :
            ( /\ left' # left /\ tasks' = tasks
              /\ resp'.op = "setField" /\ resp'.args = <<r, f, v>> )
            => /\ ~Existing(r)
               /\ resp'.status = NotFound
               /\ users' = users ]_vars

\* C13: a getUserDetails of id is answered Ok, with id and the pseudo stored
\* under it, when a user was created under id (by createUser or
\* findOrCreateUser), and NotFound for every other id, whatever friends or
\* game-data requests naming id were served before.
C13_DetailsOnlyOfCreated ==
    [][\A id \in Ids :
        ( /\ left' # left /\ tasks' = tasks
          /\ resp'.op = "getUserDetails" /\ resp'.args = <<id>> )
        => IF Existing(id)
           THEN /\ resp'.status = Ok
                /\ resp'.data = [id |-> id, pseudo |-> users[id].pseudo]
           ELSE resp'.status = NotFound]_vars

\* C14: for a pseudo n that is not blank, every createUser(n) is answered
\* Created with n and an id under which the database held nothing, so an
\* id different from every id returned before, also when a user named n
\* exists already; its step stores n under that id and leaves every other
\* record unchanged; and the getUserDetails of the returned id answered
\* next returns the same id and n.
C14_CreateThenDetails ==
    [][\A n \in Pseudos :
        ~IsBlank(n) =>
        /\ ( /\ left' # left /\ tasks' = tasks
             /\ resp'.op = "createUser" /\ resp'.args = <<n>> )
           => /\ resp'.status = Created
              /\ resp'.data.pseudo = n
              /\ ~NodeExists(users, resp'.data.id)
              /\ users'[resp'.data.id].pseudo = n
              /\ \A j \in Ids \ {resp'.data.id} : users'[j] = users[j]
        /\ ( /\ Answered(resp, "createUser", Created, <<n>>)
             /\ left' # left /\ tasks' = tasks
             /\ resp'.op = "getUserDetails"
             /\ resp'.args = <<resp.data.id>> )
           => resp'.status = Ok /\ resp'.data = resp.data]_vars

\* C14's case: a second user named as u1 was created under u2, and its
\* details were read next.
C14_Witness ==
    /\ Answered(resp, "getUserDetails", Ok, <<"u2">>)
    /\ Existing("u1")
    /\ users["u2"].pseudo = users["u1"].pseudo
    /\ resp.data = [id |-> "u2", pseudo |-> users["u1"].pseudo]

\* C15: the requests being sent one at a time, when a findOrCreateUser(n)
\* was answered Created (n was in use by no user) and findOrCreateUser(n)
\* is the next request, the second call is answered at its query, with Ok
\* and the id and pseudo of the first answer; it never goes on to create a
\* user, and the database stays as it is.
C15_FindAfterCreate ==
    [][\A n \in Pseudos :
        Answered(resp, "findOrCreateUser", Created, <<n>>) =>
        /\ \A s \in 1..MaxTasks :
            ~ ( /\ tasks[s].op = "idle"
                /\ tasks'[s].op = "findOrCreateUser"
                /\ tasks'[s].pseudo = n )
        /\ ( /\ left' # left /\ tasks' = tasks
             /\ resp'.op = "findOrCreateUser" /\ resp'.args = <<n>> )
           => /\ resp'.status = Ok
              /\ resp'.data = resp.data
              /\ users' = users]_vars

\* C15's case: b was looked up twice from the empty database; the second
\* call found the user of the first and no second user exists.
C15_Witness ==
    /\ Answered(resp, "findOrCreateUser", Ok, <<(<<"b">>)>>)
    /\ resp.data = [id |-> "u1", pseudo |-> <<"b">>]
    /\ users["u1"].pseudo = <<"b">>
    /\ ~Existing("u2")
    /\ left = MaxDataOps - 2

IsNumber(v) == v.k = "num"

\* C16: in the answer of every getLeaderboard, each record whose mainScore
\* is a number when the request is served appears exactly once, with its
\* gameData, and among the entries whose mainScore is a number an earlier
\* entry never has a lower mainScore than a later one.
C16_LeaderboardOrdered ==
    [][( /\ left' # left /\ tasks' = tasks
         /\ resp'.op = "getLeaderboard" )
       => LET data == resp'.data
          IN  /\ resp'.status = Ok
              /\ \A id \in Ids :
                    IsNumber(Field(id, "mainScore"))
                    => \E i \in 1..Len(data) :
                        /\ data[i].userId = id
                        /\ data[i].gameData = users[id].gameData
                        /\ \A j \in 1..Len(data) :
                                data[j].userId = id => j = i
              /\ \A i \in 1..Len(data), j \in 1..Len(data) :
                    ( /\ i < j
                      /\ IsNumber(data[i].gameData["mainScore"])
                      /\ IsNumber(data[j].gameData["mainScore"]) )
                    => data[i].gameData["mainScore"].n
                         >= data[j].gameData["mainScore"].n]_vars

\* C16's case: a leaderboard of two records, of mainScore 10 and 0.
C16_Witness ==
    /\ Answered(resp, "getLeaderboard", Ok, << >>)
    /\ Len(resp.data) = 2
    /\ resp.data[1].gameData["mainScore"] = Num(10)
    /\ resp.data[2].gameData["mainScore"] = Num(0)

\* C17: a getLeaderboard served when no record has the field mainScore is
\* answered the empty sequence, also when users exist whose gameData
\* holds other fields only.
C17_LeaderboardEmptyWithoutScores ==
    [][( /\ left' # left /\ tasks' = tasks
         /\ resp'.op = "getLeaderboard"
         /\ \A id \in Ids : Field(id, "mainScore") = Null )
       => resp'.data = << >>]_vars

\* C18: when a setField of old to v on r was answered Ok and the next
\* answer is the Ok of a renameField of old to new on r, old # new, that
\* was being served meanwhile (no write came between the two), new holds v
\* after the rename: the value the setField wrote is not lost.
C18_RenameMovesCurrentValue ==
    [][\A r \in Ids, old \in FieldArgs, new \in FieldArgs, v \in Values :
        ( /\ old # new
          /\ Answered(resp, "setField", Ok, <<r, old, v>>)
          /\ Field(r, old) = v
          /\ resp' # resp
          /\ Answered(resp', "renameField", Ok, <<r, old, new>>) )
        => users'[r].gameData[new] = v]_vars

\* C19: in every reachable state no user is a key of its own friends.
C19_NoSelfFriend == \A A \in Ids : Existing(A) => A \notin Friends(A)

\* C20: when findOrCreateUser is the only handler that creates users, in
\* every reachable state no two users have the same pseudo, also when
\* several findOrCreateUser of one unused pseudo are served at once.
C20_OneUserPerPseudo ==
    \A i \in Ids, j \in Ids :
        (Existing(i) /\ Existing(j) /\ users[i].pseudo = users[j].pseudo)
        => i = j

FieldsOf(db, id) == { f \in Fields : db[id].gameData[f] # Null }

\* C21: when the Ok of a renameField of old to n1 on r was answered last
\* and the update of a renameField of old to n2 on r, served meanwhile,
\* comes next, n1, n2 and old all different, that update does not leave
\* the record with more fields than it had, and n1 and n2 do not both
\* hold the value it moved: one source value is never left under two new
\* names.
C21_RenameAddsNoField ==
    [][\A s \in 1..MaxTasks, n1 \in FieldArgs :
        ( /\ tasks[s].op = "renameField" /\ tasks[s].pc = "update"
          /\ tasks'[s] # tasks[s]
          /\ tasks[s].a # tasks[s].b
          /\ n1 \notin {tasks[s].a, tasks[s].b}
          /\ Answered(resp, "renameField", Ok,
                      <<tasks[s].id, tasks[s].a, n1>>) )
        => /\ Cardinality(FieldsOf(users', tasks[s].id))
                <= Cardinality(FieldsOf(users, tasks[s].id))
           /\ ~ ( /\ users'[tasks[s].id].gameData[n1] = tasks[s].value
                  /\ users'[tasks[s].id].gameData[tasks[s].b]
                        = tasks[s].value )]_vars

\* C22: the update of a renameField of f to f, on a record where f holds
\* the value the handler read, is answered Ok and leaves the database as
\* it is: f is still present with the same value.
C22_RenameToItself ==
    [][\A s \in 1..MaxTasks :
        ( /\ tasks[s].op = "renameField" /\ tasks[s].pc = "update"
          /\ tasks'[s] # tasks[s]
          /\ tasks[s].a = tasks[s].b
          /\ Field(tasks[s].id, tasks[s].a) # Null
          /\ Field(tasks[s].id, tasks[s].a) = tasks[s].value )
        => /\ Answered(resp', "renameField", Ok,
                       <<tasks[s].id, tasks[s].a, tasks[s].b>>)
           /\ users' = users]_vars

\* data lists the records of db that have a gameData, each once, with the
\* pseudo and the gameData db holds, later entries before earlier ones in
\* the order of the query.
IsProjection(data, db) ==
    /\ { data[i].userId : i \in 1..Len(data) }
          = { id \in Ids : GameDataExists(db, id) }
    /\ \A i \in 1..Len(data), j \in 1..Len(data) :
          i < j => /\ data[i].userId # data[j].userId
                   /\ ChildBefore(db, data[j].userId, data[i].userId)
    /\ \A i \in 1..Len(data) :
          /\ data[i].username = db[data[i].userId].pseudo
          /\ data[i].gameData = db[data[i].userId].gameData

\* C23: the answer of every getLeaderboard, also while setField,
\* renameField and findOrCreateUser handlers are between two of their
\* database calls, is the descending projection of one state of the
\* database, the one the handler's single query read: every entry carries
\* the gameData that state holds, in that state's order.
C23_LeaderboardOfOneState ==
    [][( /\ left' # left /\ tasks' = tasks
         /\ resp'.op = "getLeaderboard" )
       => IsProjection(resp'.data, users)]_vars

\* C23's case: a leaderboard of two records, one of them written to since
\* its creation, answered while another handler was between two of its
\* database calls.
C23_Witness ==
    /\ Answered(resp, "getLeaderboard", Ok, << >>)
    /\ Len(resp.data) = 2
    /\ \E i \in 1..2 :
          resp.data[i].gameData # NewUser(resp.data[i].username).gameData
    /\ \E s \in 1..MaxTasks : tasks[s].op \in {"setField", "renameField"}
    /\ IsProjection(resp.data, users)

FriendOps == {"sendFriendRequest", "acceptFriendRequest",
              "declineFriendRequest"}
FieldOps == {"setField", "renameField"}

\* The friends, sent and received entries of id.
Relations(db, id) ==
    <<db[id].friends, db[id].friendRequestsSent,
      db[id].friendRequestsReceived>>

\* C24: the step of a sendFriendRequest, acceptFriendRequest or
\* declineFriendRequest of (A, B) changes no pseudo and no gameData, and
\* no friends, sent or received entry other than those of A keyed by B and
\* of B keyed by A; and no step of a setField or renameField changes a
\* friends, sent or received entry of any id.
C24_Frame ==
    [][ /\ ( /\ left' # left /\ tasks' = tasks
             /\ resp'.op \in FriendOps )
           => LET A == resp'.args[1]
                  B == resp'.args[2]
              IN  \A id \in Ids :
                    /\ users'[id].pseudo = users[id].pseudo
                    /\ users'[id].gameData = users[id].gameData
                    /\ \A k \in Ids :
                        ~ ((id = A /\ k = B) \/ (id = B /\ k = A))
                        => /\ k \in users'[id].friends
                                <=> k \in users[id].friends
                           /\ k \in users'[id].friendRequestsSent
                                <=> k \in users[id].friendRequestsSent
                           /\ k \in users'[id].friendRequestsReceived
                                <=> k \in users[id].friendRequestsReceived
        /\ ( \/ \E s \in 1..MaxTasks :
                    tasks[s].op \in FieldOps /\ tasks'[s] # tasks[s]
             \/ \E s \in 1..MaxTasks :
                    tasks[s].op = "idle" /\ tasks'[s].op \in FieldOps
             \/ left' # left /\ tasks' = tasks /\ resp'.op \in FieldOps )
           => \A id \in Ids : Relations(users', id) = Relations(users, id)
      ]_vars

\* C24's case: u1 declined the request of u2 while holding an entry with a
\* third id, which is still there.
C24_Witness ==
    /\ Answered(resp, "declineFriendRequest", Ok, <<"u1", "u2">>)
    /\ "zz" \in Received("u1") \cup Sent("u1") \cup Friends("u1")
    /\ GameDataExists(users, "u1")

=============================================================================
